---- MODULE Spec2Model ----
(***************************************************************************)
(* A model of the job-notification pipeline of this repository:            *)
(*   scripts/scraper.py          (main: harvest, dedupe, publish loop)     *)
(*   scripts/scripts/scraper.py  (JobScraper: per-category poster)         *)
(* Titles, link texts and URLs are strings; the string functions of the    *)
(* code (lower, strip, the whitespace collapse of clean, slicing, "in")    *)
(* are computed character by character.                                    *)
(***************************************************************************)
EXTENDS Integers, Sequences, FiniteSets, TLC

(***************************************************************************)
(* Strings, as Python computes them                                        *)
(***************************************************************************)
Min(a, b) == IF a < b THEN a ELSE b

Max(a, b) == IF a < b THEN b ELSE a

Range(f) == {f[i] : i \in DOMAIN f}

\* s[i:i+1], the character at (1-based) position i
CharAt(s, i) == SubSeq(s, i, i)

\* Python's  sub in s
Contains(s, sub) ==
    \E i \in 0..(Len(s) - Len(sub)) : SubSeq(s, i + 1, i + Len(sub)) = sub

\* Python's  s.startswith(p)
StartsWith(s, p) == Len(p) <= Len(s) /\ SubSeq(s, 1, Len(p)) = p

\* s ends with p
EndsWith(s, p) ==
    Len(p) <= Len(s) /\ SubSeq(s, Len(s) - Len(p) + 1, Len(s)) = p

\* Python's  s[:n]
Prefix(s, n) == SubSeq(s, 1, Min(n, Len(s)))

\* any(k in s for k in kws)
ContainsAny(s, kws) == \E k \in kws : Contains(s, k)

UpperChars == "ABCDEFGHIJKLMNOPQRSTUVWXYZ"

LowerChars == "abcdefghijklmnopqrstuvwxyz"

LowerChar(c) ==
    IF \E i \in 1..Len(UpperChars) : CharAt(UpperChars, i) = c
    THEN CharAt(LowerChars, CHOOSE i \in 1..Len(UpperChars) : CharAt(UpperChars, i) = c)
    ELSE c

RECURSIVE LowerRange(_, _, _)
\* the characters a..b of s, each in lower case (computed by halves)
LowerRange(s, a, b) ==
    IF a > b THEN ""
    ELSE IF a = b THEN LowerChar(CharAt(s, a))
    ELSE LowerRange(s, a, (a + b) \div 2) \o LowerRange(s, (a + b) \div 2 + 1, b)

\* Python's  s.lower()
Lower(s) == LowerRange(s, 1, Len(s))

\* the characters the regular expression \s and str.strip() take as white space
IsSpace(c) == c \in {" ", "\t", "\n", "\r"}

\* what the i-th character of s leaves in clean(s): itself, or, for the first
\* character of a run of white space with text before and after it, one space
CleanPiece(s, i) ==
    IF ~IsSpace(CharAt(s, i)) THEN CharAt(s, i)
    ELSE IF /\ i > 1 /\ ~IsSpace(CharAt(s, i - 1))
            /\ \E j \in (i + 1)..Len(s) : ~IsSpace(CharAt(s, j))
         THEN " "
         ELSE ""

RECURSIVE CleanRange(_, _, _)
\* what the characters a..b of s leave in clean(s) (computed by halves)
CleanRange(s, a, b) ==
    IF a > b THEN ""
    ELSE IF a = b THEN CleanPiece(s, a)
    ELSE CleanRange(s, a, (a + b) \div 2) \o CleanRange(s, (a + b) \div 2 + 1, b)

\* clean(text): re.sub(r'\s+', ' ', text).strip()
clean(text) == CleanRange(text, 1, Len(text))

RECURSIVE FirstNonSpace(_, _)
FirstNonSpace(s, i) ==
    IF i > Len(s) \/ ~IsSpace(CharAt(s, i)) THEN i ELSE FirstNonSpace(s, i + 1)

RECURSIVE LastNonSpace(_, _)
LastNonSpace(s, i) ==
    IF i < 1 \/ ~IsSpace(CharAt(s, i)) THEN i ELSE LastNonSpace(s, i - 1)

\* Python's  s.strip()
Strip(s) == SubSeq(s, FirstNonSpace(s, 1), LastNonSpace(s, Len(s)))

RECURSIVE LastNonSlash(_, _)
LastNonSlash(s, i) ==
    IF i < 1 \/ CharAt(s, i) # "/" THEN i ELSE LastNonSlash(s, i - 1)

\* Python's  s.rstrip("/")
RStripSlash(s) == SubSeq(s, 1, LastNonSlash(s, Len(s)))

\* os.environ.get(name, ""): a variable that is not set reads as ""
Environ(site, user, pwd) ==
    [WP_SITE_URL |-> site, WP_USERNAME |-> user, WP_APP_PASSWORD |-> pwd]

\* the environments a process is started in: everything set, each of the three
\* variables not set, none set, and a user name of white space only
Envs ==
    { Environ("https://rojgarbhaskar.com/", "bot", "abcd efgh"),
      Environ("", "bot", "abcd efgh"),
      Environ("https://rojgarbhaskar.com/", "", "abcd efgh"),
      Environ("https://rojgarbhaskar.com/", "bot", ""),
      Environ("", "", ""),
      Environ("https://rojgarbhaskar.com/", "  ", "abcd efgh") }

\* the check that lets every start through, whatever is set
all_unchecked(values) == TRUE

\* Python's  all([...])  of strings: none of them is empty
all(values) == \A i \in DOMAIN values : values[i] # ""

(***************************************************************************)
(* Configuration of scripts/scraper.py                                     *)
(***************************************************************************)
LATEST_JOBS == 18

RESULTS == 19

ADMIT_CARD == 20

ANSWER_KEY == 21

SYLLABUS == 22

ADMISSION == 23

\* CATEGORY_KEYWORDS with the entry of the results written before that of the admit cards
CATEGORY_KEYWORDS_results_first ==
    << [cat_id |-> RESULTS,     keywords |-> <<"result", "merit list", "cut off", "score card">>],
       [cat_id |-> ADMIT_CARD,  keywords |-> <<"admit card", "admit", "hall ticket", "call letter">>],
       [cat_id |-> ANSWER_KEY,  keywords |-> <<"answer key", "answer sheet", "objection">>],
       [cat_id |-> SYLLABUS,    keywords |-> <<"syllabus", "exam pattern">>],
       [cat_id |-> ADMISSION,   keywords |-> <<"admission", "counselling", "counseling">>],
       [cat_id |-> LATEST_JOBS, keywords |-> <<"recruitment", "vacancy", "bharti", "jobs",
                                                "notification", "apply", "online form">>] >>

\* the dict CATEGORY_KEYWORDS, in its insertion order (the order .items() yields)
CATEGORY_KEYWORDS ==
    << [cat_id |-> ADMIT_CARD,  keywords |-> <<"admit card", "admit", "hall ticket", "call letter">>],
       [cat_id |-> RESULTS,     keywords |-> <<"result", "merit list", "cut off", "score card">>],
       [cat_id |-> ANSWER_KEY,  keywords |-> <<"answer key", "answer sheet", "objection">>],
       [cat_id |-> SYLLABUS,    keywords |-> <<"syllabus", "exam pattern">>],
       [cat_id |-> ADMISSION,   keywords |-> <<"admission", "counselling", "counseling">>],
       [cat_id |-> LATEST_JOBS, keywords |-> <<"recruitment", "vacancy", "bharti", "jobs",
                                                "notification", "apply", "online form">>] >>

BLOCKED_DOMAINS == <<"sarkariexam.com", "rojgarlive.com", "naukri.com">>

\* is_blocked(url)
is_blocked(url) == \E i \in DOMAIN BLOCKED_DOMAINS : Contains(Lower(url), BLOCKED_DOMAINS[i])

RECURSIVE DetectFrom(_, _)
\* the loop of detect_category from the i-th entry of CATEGORY_KEYWORDS on
DetectFrom(t, i) ==
    IF i > Len(CATEGORY_KEYWORDS) THEN LATEST_JOBS
    ELSE IF \E k \in DOMAIN CATEGORY_KEYWORDS[i].keywords :
                Contains(t, CATEGORY_KEYWORDS[i].keywords[k])
         THEN CATEGORY_KEYWORDS[i].cat_id
         ELSE DetectFrom(t, i + 1)

\* detect_category(title)
detect_category(title) == DetectFrom(Lower(title), 1)

\* the list "sources" of main
sources == <<"FreeJobAlert", "SarkariNaukri", "FreshersLive", "EmploymentNews", "HireLateral">>

(***************************************************************************)
(* The pages of the modelled world                                         *)
(***************************************************************************)
A(text, href, in_table) == [text |-> text, href |-> href, in_table |-> in_table]

\* two titles that agree on their first 50 characters
LongA == "Staff Selection Commission Combined Graduate Level Examination 2025 Apply Online"

LongB == "Staff Selection Commission Combined Graduate Level Examination 2025 Last Date Extended"

\* the anchors of the listing page each scraper fetches
ListingPage(url) ==
    CASE url = "https://www.freejobalert.com/latest-notifications/" ->
            << A("SSC CGL 2025 Recruitment", "https://www.freejobalert.com/ssc-cgl-2025/", TRUE),
               A("UPSC Admit Card 2025 and Result", "https://www.freejobalert.com/upsc-admit-card/", TRUE),
               A("View More Notifications", "https://www.freejobalert.com/more/", TRUE),
               A("SSC CGL 2025 Get Details", "https://www.freejobalert.com/ssc-cgl-2025/", TRUE),
               A("Latest Notifications Page 2", "https://www.freejobalert.com/latest-notifications/page/2/", TRUE) >>
      [] url = "https://www.sarkarinaukri.com" ->
            << A(LongA, "/post/ssc-cgl-exam", FALSE),
               A(LongB, "/post/ssc-cgl-exam-extended", FALSE),
               A("ssc  CGL 2025\tRECRUITMENT", "https://www.sarkarinaukri.com/post/ssc-cgl", FALSE),
               A("Contact Us For Advertising", "/contact", FALSE) >>
      [] url = "https://www.fresherslive.com/government-jobs" ->
            << A(LongB, "https://www.fresherslive.com/government-jobs/ssc-cgl-exam", FALSE),
               A("Bihar Police Bharti 2025", "https://www.fresherslive.com/state-govt-jobs/bihar-police", FALSE) >>
      [] url = "https://www.fresherslive.com" ->
            << A("Bihar Police Bharti 2025", "https://www.fresherslive.com/state-govt-jobs/bihar-police", FALSE) >>
      [] url = "https://www.employmentnews.gov.in" ->
            << A("Railway RRB Result 2025 Merit List", "/rrb-result", FALSE),
               A("Download App", "/app", FALSE) >>
      [] url = "https://www.hirelateral.com/government-jobs" ->
            << A("UPSC Admit Card 2025 and Result", "https://www.hirelateral.com/job/upsc-admit-card", FALSE) >>

\* the urls a scraper fetches, in the order it tries them
ListingUrls(name) ==
    CASE name = "FreeJobAlert"   -> <<"https://www.freejobalert.com/latest-notifications/">>
      [] name = "SarkariNaukri"  -> <<"https://www.sarkarinaukri.com">>
      [] name = "FreshersLive"   -> <<"https://www.fresherslive.com/government-jobs",
                                      "https://www.fresherslive.com">>
      [] name = "EmploymentNews" -> <<"https://www.employmentnews.gov.in">>
      [] name = "HireLateral"    -> <<"https://www.hirelateral.com/government-jobs">>

\* the anchors a scraper parses when the first k-1 of its fetches failed and the
\* k-th answered; k = 0: every fetch failed and the scraper returns no items
FetchedAnchors(name, k) == IF k = 0 THEN <<>> ELSE ListingPage(ListingUrls(name)[k])

\* fetch(url), as the requests and sleeps it makes: time.sleep(random.uniform(1, 2)),
\* then requests.get
fetch(url) == <<"delay", "GET page">>

RECURSIVE Fetches(_, _, _)
\* the fetches of a scraper that tries its urls from the i-th to the n-th
Fetches(urls, i, n) == IF i > n THEN <<>> ELSE fetch(urls[i]) \o Fetches(urls, i + 1, n)

\* JobScraper.fetch_page(url), as the requests it makes: session.get
fetch_page(url) == <<"GET page">>

Elem(name, text) == [name |-> name, text |-> text]

\* a detail page with nothing to extract
PlainPage(has_title, title) ==
    [fetched |-> TRUE, has_title |-> has_title, title |-> title,
     anchors |-> <<>>, rows |-> <<>>, paras |-> <<>>, body |-> <<>>]

\* the detail page of the SSC notification
SscPage ==
    [fetched   |-> TRUE,
     has_title |-> TRUE,
     title     |-> " SSC CGL 2025 Notification Out \n",
     anchors   |-> << A("Apply Here", "https://www.sarkariexam.com/ssc-cgl", FALSE),
                      A("Apply Online", "https://ssc.gov.in/apply", FALSE),
                      A("Registration", "/register", FALSE),
                      A("More Details", "https://www.FreeJobAlert.com/ssc", FALSE),
                      A("Download Notification PDF", "https://ssc.gov.in/notice.pdf", FALSE),
                      A("Apply Online Link 2", "https://ssc.gov.in/apply2", FALSE),
                      A("Official Website", "https://ssc.gov.in", FALSE) >>,
     rows      |-> << <<"Organization", "Staff Selection Commission">>,
                      <<"Post Name", "CGL">>,
                      <<"Total Post", "120">>,
                      <<"Last Date", "-">>,
                      <<"Application Fee", "100">>,
                      <<"Only one cell">> >>,
     paras     |-> << "Short text.",
                      "The Staff Selection Commission has released the CGL notification." >>,
     body      |-> << Elem("h2", "FAQ"),
                      Elem("p", "How to apply for SSC CGL 2025?"),
                      Elem("p", "Too short"),
                      Elem("h3", "Other") >>]

\* the page fetch(link) returns when the request succeeds
DetailPage(link) ==
    CASE link = "https://www.freejobalert.com/ssc-cgl-2025/" -> SscPage
      [] link = "https://www.sarkarinaukri.com/post/ssc-cgl" -> SscPage
      [] link = "https://www.freejobalert.com/upsc-admit-card/" -> PlainPage(TRUE, "Home")
      [] link = "https://www.sarkarinaukri.com/post/ssc-cgl-exam" -> PlainPage(FALSE, "")
      [] OTHER -> PlainPage(TRUE, "Government Jobs Portal")

\* SITES_CONFIG of scripts/scripts/scraper.py: the category pages, in the
\* order run() goes through them, each with the name of its site
Categories ==
    << [url |-> "https://www.freejobalert.com/latest-notifications/", site |-> "Free Job Alert"],
       [url |-> "https://www.freejobalert.com/bank-jobs/",            site |-> "Free Job Alert"],
       [url |-> "https://www.freejobalert.com/railway-jobs/",         site |-> "Free Job Alert"],
       [url |-> "https://www.freejobalert.com/police-jobs/",          site |-> "Free Job Alert"],
       [url |-> "https://www.freejobalert.com/ssc-jobs/",             site |-> "Free Job Alert"],
       [url |-> "https://testbook.com/career",                        site |-> "Testbook"] >>

\* the anchors of the category pages
CategoryPage(url) ==
    CASE url = "https://www.freejobalert.com/latest-notifications/" ->
            << A(" Get Details ", "https://www.freejobalert.com/ssc-cgl-2025/", TRUE),
               A("Read More", "/upsc-admit-card/", TRUE),
               A("Apply Online", "https://www.freejobalert.com/ssc-cgl-2025/", TRUE),
               A("Home", "/", FALSE),
               A("More details", "rrb-ntpc/", TRUE) >>
      [] url = "https://www.freejobalert.com/bank-jobs/" ->
            << A("Details", "https://www.freejobalert.com/ssc-cgl-2025/", TRUE) >>
      [] url = "https://www.freejobalert.com/railway-jobs/" ->
            << A("Railway Jobs", "/railway-jobs/", FALSE) >>
      [] url = "https://www.freejobalert.com/police-jobs/" ->
            << A("APPLY NOW", "/upsc-admit-card-2/", TRUE) >>
      [] url = "https://www.freejobalert.com/ssc-jobs/" -> <<>>
      [] url = "https://testbook.com/career" ->
            << A("Read more", "https://testbook.com/career/rrb-ntpc", FALSE) >>

\* a title of more than 200 characters
VeryLongTitle ==
    "Railway Recruitment Board Non Technical Popular Categories Graduate and "
    \o "Undergraduate Posts Centralised Employment Notice 2025 Online Application "
    \o "Form Eligibility Age Limit Fee Vacancy Details Exam Date Syllabus and "
    \o "Selection Process Apply Online Here"

\* an article page: the text of its first h1 ("" when it has none), the text of
\* its <title> ("" when it has none), the markup of the first element one of
\* the content selectors finds ("" when none does), and its paragraphs
Article(h1, title, element, paras) ==
    [h1 |-> h1, title |-> title, element |-> element, paras |-> paras]

\* the page fetch_page(link) returns when the request succeeds
ArticlePage(link) ==
    CASE link = "https://www.freejobalert.com/ssc-cgl-2025/" ->
            Article(" SSC CGL 2025 Recruitment ", "FreeJobAlert",
                    "<div class='entry-content'>SSC CGL</div>", <<>>)
      [] link = "https://www.freejobalert.com/upsc-admit-card/" ->
            Article("UPSC Admit Card 2025 and Result", "", "", <<"Download the admit card.">>)
      [] link = "https://www.freejobalert.com/upsc-admit-card-2/" ->
            Article("UPSC Admit Card 2025 and Result", "", "", <<>>)
      [] link = "https://testbook.com/career/rrb-ntpc" ->
            Article(VeryLongTitle, "Testbook", "<article>RRB NTPC</article>", <<>>)
      [] OTHER -> Article("", "", "", <<>>)

\* the titles the pure functions are applied to
FnTitles ==
    { "SSC CGL 2025 Recruitment", "SSC CGL 2025", "Recruitment - Apply Online",
      "ssc  cgl 2025\tRECRUITMENT", "Bihar Police Bharti 2025", LongA, LongB, VeryLongTitle,
      "UPSC Admit Card 2025 and Result", "Result of the Admit Card Verification",
      "ADMIT CARD RESULT OUT", "List of Readmitted Candidates", "UPSC Hall Ticket 2025",
      "SSC Result 2025", "Answer Key and Result", "NEET Counselling Result",
      "Cut Off Marks 2025", "Answer Key Objection Window", "Syllabus and Answer Sheet",
      "CTET Syllabus and Exam Pattern", "Admission Syllabus 2025", "B.Ed Admission 2025",
      "Counseling Schedule", "Bank Recruitment 2025", "Hello World" }

\* the stores a run may start from
InitialStores ==
    { <<>>,
      <<"SSC CGL 2025 Recruitment - Apply Online">>,
      <<"ssc cgl 2025 recruitment", "Bihar Police Bharti 2025">>,
      <<"SSC CGL 2025 Recruitment Tier 1", "SSC CGL 2025 Recruitment Tier 2",
        "SSC CGL 2025 Recruitment Tier 3", "SSC CGL 2025 Recruitment Tier 4",
        "SSC CGL 2025 Recruitment Tier 5">> }

(***************************************************************************)
(* The titles of the modelled world, with the normal forms the code makes  *)
(* of them computed once                                                   *)
(***************************************************************************)
ListingUrlSet == UNION {Range(ListingUrls(sources[i])) : i \in DOMAIN sources}

ArticleLinks ==
    { "https://www.freejobalert.com/ssc-cgl-2025/", "https://www.freejobalert.com/upsc-admit-card/",
      "https://www.freejobalert.com/upsc-admit-card-2/", "https://testbook.com/career/rrb-ntpc",
      "https://www.freejobalert.com/latest-notifications/rrb-ntpc/" }

TitlePool ==
    UNION {{clean(ListingPage(u)[i].text) : i \in DOMAIN ListingPage(u)} : u \in ListingUrlSet}
    \cup UNION {Range(st) : st \in InitialStores}
    \cup FnTitles
    \cup UNION {{Strip(ArticlePage(l).h1), Prefix(Strip(ArticlePage(l).h1), 200)} : l \in ArticleLinks}
    \cup {"Job Post"}

RECURSIVE Tabulate(_, _)
\* the function f, on the set S, with every value computed
Tabulate(f, S) ==
    IF S = {} THEN <<>>
    ELSE LET x == CHOOSE y \in S : TRUE IN (x :> f[x]) @@ Tabulate(f, S \ {x})

NormTable == Tabulate([t \in TitlePool |-> Lower(clean(t))], TitlePool)

\* clean(title).lower()
NormTitle(t) == IF t \in TitlePool THEN NormTable[t] ELSE Lower(clean(t))

(***************************************************************************)
(* The content store, as wp_exists and wp_post see it.  The store is a      *)
(* sequence of the titles of its items, each kept exactly as it was sent.   *)
(***************************************************************************)
\* title[:50], the length of the search key of wp_exists
SEARCH_LEN == 50

SearchTable == Tabulate([t \in TitlePool |-> Lower(clean(Prefix(t, SEARCH_LEN)))], TitlePool)

\* the words of the search parameter title[:50], as the store compares them
SearchKey(t) == IF t \in TitlePool THEN SearchTable[t] ELSE Lower(clean(Prefix(t, SEARCH_LEN)))

\* per_page of the search request of wp_exists
PER_PAGE == 5

\* the items of the store a search selects: the store looks for the words of
\* the search parameter, without regard to case, in the item
SearchMatches(st, words) ==
    {i \in DOMAIN st : Contains(NormTitle(st[i]), words)}

\* the pages the store may answer the search with: when more than per_page items
\* match, the request does not say which of them the store returns
SearchPages(st, words) ==
    LET M == SearchMatches(st, words)
    IN  {W \in SUBSET M : Cardinality(W) = Min(PER_PAGE, Cardinality(M))}

\* what the GET of wp_exists can come back with: an exception (time-out,
\* connection error), a status other than 200, or a page of rendered titles
ExistsResponses(st, title) ==
    {[kind |-> "exception", posts |-> {}], [kind |-> "status", posts |-> {}]}
    \cup {[kind |-> "ok", posts |-> {st[i] : i \in W}] :
            W \in SearchPages(st, SearchKey(title))}

\* a gate that fails closed: a search that was not answered counts as a match
wp_exists_closed(title, r) ==
    \/ r.kind # "ok"
    \/ \E p \in r.posts : NormTitle(p) = NormTitle(title)

\* wp_exists(site, user, pwd, title), given the answer r of its request
wp_exists(title, r) ==
    /\ r.kind = "ok"
    /\ \E p \in r.posts : NormTitle(p) = NormTitle(title)

\* the search request of the dedup gate in the timeline: whether it was
\* answered with status 200
SearchEvent(r) == IF r.kind = "ok" THEN "GET search" ELSE "GET search failed"

\* what the POST of wp_post can come back with: 200/201 with the stored item
\* (a JSON object); 200 with a JSON list, the answer of the posts endpoint to
\* the GET that requests makes of a POST it is redirected with (301, 302),
\* nothing being stored; another status; or an exception
PostResponses == {"created", "listed", "rejected", "exception"}

\* wp_post(...): the value main tests ("if result:"), r.json() when the
\* status is 200 or 201 and None otherwise
wp_post(r) == r \in {"created", "listed"}

\* result.get('link', 'OK') of the "Posted" line raises AttributeError when
\* the result is not a JSON object
PostedLogRaises(r) == r = "listed"

\* what the POST of wp_create_post can come back with; wp_create_post reads
\* the status only
JPostResponses == {"created", "rejected", "exception"}

\* the store after the POST of wp_post answered r
StoreAfterPost(st, title, r) == IF r = "created" THEN Append(st, title) ELSE st

(***************************************************************************)
(* Detail pages and the content builder                                    *)
(***************************************************************************)
\* a parsed page: whether it has a <title> and its text, the anchors with an
\* href, the table rows (their cells), the paragraphs, and the sibling elements
\* of the body the FAQ extraction walks over

KeyOrder == <<"org", "post", "qual", "vacancy", "last_date", "salary", "age", "fee">>

KeyLabels ==
    [k \in Range(KeyOrder) |->
        CASE k = "org"       -> {"organization", "department", "company", "board"}
          [] k = "post"      -> {"post", "position", "job title"}
          [] k = "qual"      -> {"qualification", "education", "eligibility"}
          [] k = "vacancy"   -> {"vacancy", "total post", "no of post"}
          [] k = "last_date" -> {"last date", "closing date", "apply before"}
          [] k = "salary"    -> {"salary", "pay scale", "pay band"}
          [] k = "age"       -> {"age", "age limit"}
          [] k = "fee"       -> {"fee", "application fee"}]

\* the first key of the if/elif chain of extract_details the label selects (0: none)
DetailKeyIndex(label) ==
    IF \E j \in DOMAIN KeyOrder : ContainsAny(label, KeyLabels[KeyOrder[j]])
    THEN CHOOSE j \in DOMAIN KeyOrder :
            /\ ContainsAny(label, KeyLabels[KeyOrder[j]])
            /\ \A h \in 1..(j - 1) : ~ContainsAny(label, KeyLabels[KeyOrder[h]])
    ELSE 0

RECURSIVE DetailsFrom(_, _, _)
DetailsFrom(rows, i, details) ==
    IF i > Len(rows) THEN details
    ELSE LET cells == rows[i]
             label == IF Len(cells) >= 2 THEN Lower(clean(cells[1])) ELSE ""
             value == IF Len(cells) >= 2 THEN clean(cells[2]) ELSE ""
             j     == DetailKeyIndex(label)
         IN  IF Len(cells) < 2 \/ Len(value) < 2 \/ j = 0
             THEN DetailsFrom(rows, i + 1, details)
             ELSE DetailsFrom(rows, i + 1, (KeyOrder[j] :> value) @@ details)

\* extract_details(soup): the dict details, as a function on the keys it holds
extract_details(page) == DetailsFrom(page.rows, 1, <<>>)

\* the value of a link label that is not filled (None, tested with "not")
None == ""

excluded_in_output == {"fresherslive", "sarkarinaukri", "hirelateral", "employmentnews", "freejobalert.com"}

RECURSIVE LinksFrom(_, _, _)
LinksFrom(anchors, i, links) ==
    IF i > Len(anchors) THEN links
    ELSE LET href == anchors[i].href
             text == Lower(clean(anchors[i].text))
         IN  IF ~StartsWith(href, "http") \/ is_blocked(href)
             THEN LinksFrom(anchors, i + 1, links)
             ELSE IF ContainsAny(Lower(href), excluded_in_output)
             THEN LinksFrom(anchors, i + 1, links)
             ELSE IF (Contains(text, "apply") \/ Contains(text, "registration"))
                     /\ links.apply = None
             THEN LinksFrom(anchors, i + 1, [links EXCEPT !.apply = href])
             ELSE IF (Contains(text, "notification") \/ Contains(text, "pdf")
                        \/ Contains(text, "download"))
                     /\ links.notification = None
             THEN LinksFrom(anchors, i + 1, [links EXCEPT !.notification = href])
             ELSE IF (Contains(text, "official") \/ Contains(text, "website"))
                     /\ links.official = None
             THEN LinksFrom(anchors, i + 1, [links EXCEPT !.official = href])
             ELSE LinksFrom(anchors, i + 1, links)

\* extract_links(soup, source)
extract_links(page) ==
    LinksFrom(page.anchors, 1, [apply |-> None, notification |-> None, official |-> None])

\* the length bound of extract_faq ("if len(faqs) >= 5: break")
FAQ_BREAK == 5

\* the least length a sibling's text needs to be kept ("len(text) > 20")
FAQ_MIN_LEN == 20

RECURSIVE FaqSiblings(_, _, _)
\* the while loop of extract_faq from sibling j on
FaqSiblings(body, j, faqs) ==
    IF j > Len(body) \/ body[j].name \in {"h2", "h3"} THEN faqs
    ELSE LET text == clean(body[j].text)
             more == IF text # "" /\ Len(text) > FAQ_MIN_LEN THEN Append(faqs, text) ELSE faqs
         IN  IF Len(more) >= FAQ_BREAK THEN more ELSE FaqSiblings(body, j + 1, more)

RECURSIVE FaqHeadings(_, _, _)
\* the for loop of extract_faq over the headings from element i on
FaqHeadings(body, i, faqs) ==
    IF i > Len(body) THEN faqs
    ELSE IF /\ body[i].name \in {"h2", "h3", "h4"}
            /\ (Contains(Lower(body[i].text), "faq") \/ Contains(Lower(body[i].text), "question"))
         THEN FaqHeadings(body, i + 1, FaqSiblings(body, i + 1, faqs))
         ELSE FaqHeadings(body, i + 1, faqs)

\* extract_faq(soup)
extract_faq(page) == FaqHeadings(page.body, 1, <<>>)

\* the bounds of the excerpt's length ("50 < len(t) < 400")
EXCERPT_MIN == 50

EXCERPT_MAX == 400

\* the excerpt loop of build_content
Excerpt(page) ==
    LET ok(i) == LET t == clean(page.paras[i]) IN EXCERPT_MIN < Len(t) /\ Len(t) < EXCERPT_MAX
    IN  IF \E i \in DOMAIN page.paras : ok(i)
        THEN clean(page.paras[CHOOSE i \in DOMAIN page.paras :
                                ok(i) /\ \A h \in 1..(i - 1) : ~ok(h)])
        ELSE ""

\* the sentence of the Overview section when there is no excerpt
OverviewFallback == "Latest government job notification. See the details below."

\* the least length of a page title that replaces the candidate's ("len(page_title) > 10")
TITLE_MIN == 10

\* final_title of build_content
FinalTitle(title, page) ==
    LET page_title == IF page.has_title THEN clean(page.title) ELSE title
    IN  IF Len(page_title) > TITLE_MIN THEN page_title ELSE title

\* the rows of the Important Links table, in the order build_content writes them
ImportantLinks(links, link) ==
    (IF links.apply # None THEN <<[label |-> "Apply Online", href |-> links.apply]>> ELSE <<>>)
    \o (IF links.notification # None
        THEN <<[label |-> "Notification PDF", href |-> links.notification]>> ELSE <<>>)
    \o (IF links.official # None
        THEN <<[label |-> "Official Website", href |-> links.official]>> ELSE <<>>)
    \o <<[label |-> "Full Details", href |-> link]>>

\* build_simple_content(title, link): the heading and the one button; the
\* "Follow" links, the same in every document, are left out of both templates
build_simple_content(title, link) ==
    [template |-> "simple",
     h1       |-> title,
     overview |-> "Latest Government Job Notification",
     details  |-> <<>>,
     links    |-> <<[label |-> "View Full Details & Apply", href |-> link]>>,
     faqs     |-> <<>>]

\* the document build_content composes from a fetched page
build_full_content(title, link, page) ==
    [template |-> "full",
     h1       |-> FinalTitle(title, page),
     overview |-> IF Excerpt(page) # "" THEN Excerpt(page) ELSE OverviewFallback,
     details  |-> extract_details(page),
     links    |-> ImportantLinks(extract_links(page), link),
     faqs     |-> extract_faq(page)]

\* what fetch(link) returned when it failed: the empty html (any exception)
Unfetched == [fetched |-> FALSE]

\* what BeautifulSoup makes of an empty html
EmptyPage ==
    [fetched |-> TRUE, has_title |-> FALSE, title |-> "",
     anchors |-> <<>>, rows |-> <<>>, paras |-> <<>>, body |-> <<>>]

\* build_content without its "if not html" test: the empty html is parsed and composed
build_content_unguarded(title, link, page) ==
    build_full_content(title, link, IF page.fetched THEN page ELSE EmptyPage)

\* build_content(title, link), given what fetch(link) returned
build_content(title, link, page) ==
    IF ~page.fetched THEN build_simple_content(title, link)
    ELSE build_full_content(title, link, page)

(***************************************************************************)
(* Link harvesting of scripts/scraper.py                                   *)
(***************************************************************************)
\* the length of the scheme of an absolute url, with its "://"
SchemeLen(u) ==
    IF StartsWith(u, "https://") THEN 8 ELSE IF StartsWith(u, "http://") THEN 7 ELSE 0

\* the position of the "/" that starts the path of u, Len(u) + 1 when it has none
PathStart(u) ==
    IF \E i \in (SchemeLen(u) + 1)..Len(u) : CharAt(u, i) = "/"
    THEN CHOOSE i \in (SchemeLen(u) + 1)..Len(u) :
            /\ CharAt(u, i) = "/"
            /\ \A h \in (SchemeLen(u) + 1)..(i - 1) : CharAt(u, h) # "/"
    ELSE Len(u) + 1

\* the position of the last "/" of the path of u
LastSlash(u) ==
    CHOOSE i \in PathStart(u)..Len(u) :
        CharAt(u, i) = "/" /\ \A h \in (i + 1)..Len(u) : CharAt(u, h) # "/"

\* urljoin(base, url) for the forms of url the pages use: an absolute url, a path
\* from the root, or a name relative to the directory of base
urljoin(base, url) ==
    IF url = "" THEN base
    ELSE IF StartsWith(url, "http://") \/ StartsWith(url, "https://") THEN url
    ELSE IF StartsWith(url, "/") THEN SubSeq(base, 1, PathStart(base) - 1) \o url
    ELSE IF PathStart(base) > Len(base) THEN base \o "/" \o url
    ELSE SubSeq(base, 1, LastSlash(base)) \o url

\* make_absolute(url, base)
make_absolute(url, base) ==
    IF url = "" THEN ""
    ELSE IF StartsWith(url, "http://") \/ StartsWith(url, "https://") THEN url
    ELSE urljoin(base, url)

\* seq[:n]
Take(seq, n) == SubSeq(seq, 1, Min(n, Len(seq)))

RECURSIVE UniqueLinksFrom(_, _, _)
\* the "seen" loop of the scrapers: the first item of every link
UniqueLinksFrom(items, i, seen) ==
    IF i > Len(items) THEN <<>>
    ELSE IF items[i].link \in seen THEN UniqueLinksFrom(items, i + 1, seen)
    ELSE <<items[i]>> \o UniqueLinksFrom(items, i + 1, seen \cup {items[i].link})

UniqueLinks(items) == UniqueLinksFrom(items, 1, {})

\* the items (text, make_absolute(href, base)) of the anchors a scraper keeps
ItemsOf(anchors, base) ==
    [i \in DOMAIN anchors |->
        [title |-> clean(anchors[i].text), link |-> make_absolute(anchors[i].href, base)]]

\* the items (text, href) of the anchors a scraper keeps
ItemsRaw(anchors) ==
    [i \in DOMAIN anchors |-> [title |-> clean(anchors[i].text), link |-> anchors[i].href]]

FJA_BASE == "https://www.freejobalert.com"

FJA_URL == "https://www.freejobalert.com/latest-notifications/"

\* the number of detail links scrape_freejobalert keeps
FJA_LIMIT == 15

\* the number of items the other scrapers keep
SCRAPER_LIMIT == 10

\* scrape_freejobalert(), given the anchors of the fetched page (<<>>: not fetched)
scrape_freejobalert(anchors) ==
    LET M1(a) == LET text == clean(a.text)
                 IN  /\ a.in_table
                     /\ text # "" /\ Len(text) >= 10
                     /\ ~ContainsAny(Lower(text), {"view more", "click here", "home", "about"})
                     /\ Contains(a.href, "freejobalert.com")
                     /\ ~Contains(a.href, "/latest-notifications/")
        M2(a) == LET text == clean(a.text)
                 IN  /\ text # "" /\ Len(text) >= 15
                     /\ Contains(a.href, "freejobalert.com")
                     /\ ~ContainsAny(a.href, {"/category/", "/tag/", "/page/", "/author/"})
                     /\ a.href # FJA_URL
                     /\ ~Contains(a.href, "/latest-notifications/")
        method1 == SelectSeq(anchors, M1)
        detail_links == IF method1 # <<>> THEN method1 ELSE SelectSeq(anchors, M2)
    IN  Take(UniqueLinks(ItemsOf(detail_links, FJA_BASE)), FJA_LIMIT)

SN_BASE == "https://www.sarkarinaukri.com"

\* scrape_sarkarinaukri()
scrape_sarkarinaukri(anchors) ==
    LET Keep(a) == LET text == clean(a.text)
                   IN  /\ text # "" /\ Len(text) >= 15
                       /\ ~ContainsAny(Lower(text), {"home", "about", "contact", "privacy",
                                                     "disclaimer", "advertise"})
                       /\ \/ Contains(a.href, "sarkarinaukri.com") /\ Contains(a.href, "/post/")
                          \/ StartsWith(a.href, "/") /\ Len(text) > 20
        kept == SelectSeq(anchors, Keep)
        items == [i \in DOMAIN kept |->
                    [title |-> clean(kept[i].text),
                     link  |-> IF Contains(kept[i].href, "sarkarinaukri.com")
                                  /\ Contains(kept[i].href, "/post/")
                               THEN kept[i].href
                               ELSE make_absolute(kept[i].href, SN_BASE)]]
        Own(it) == Contains(it.link, "sarkarinaukri.com")
    IN  Take(UniqueLinks(SelectSeq(items, Own)), SCRAPER_LIMIT)

FL_BASE == "https://www.fresherslive.com"

\* scrape_fresherslive()
scrape_fresherslive(anchors) ==
    LET Keep(a) == LET text == clean(a.text)
                   IN  /\ text # "" /\ Len(text) >= 15
                       /\ Contains(a.href, "fresherslive.com")
                       /\ ContainsAny(a.href, {"/government-jobs/", "/central-govt-jobs/",
                                               "/state-govt-jobs/"})
    IN  Take(UniqueLinks(ItemsRaw(SelectSeq(anchors, Keep))), SCRAPER_LIMIT)

EN_BASE == "https://www.employmentnews.gov.in"

\* scrape_employment_news()
scrape_employment_news(anchors) ==
    LET Keep(a) == LET text == clean(a.text)
                       full == make_absolute(a.href, EN_BASE)
                   IN  /\ text # "" /\ Len(text) >= 10
                       /\ ContainsAny(Lower(text), {"recruitment", "vacancy", "jobs", "walk-in",
                                                    "admit", "result", "notification"})
                       /\ (Contains(full, "employmentnews.gov.in") \/ StartsWith(full, EN_BASE))
    IN  Take(UniqueLinks(ItemsOf(SelectSeq(anchors, Keep), EN_BASE)), SCRAPER_LIMIT)

HL_BASE == "https://www.hirelateral.com"

\* scrape_hirelateral()
scrape_hirelateral(anchors) ==
    LET Keep(a) == LET text == clean(a.text)
                   IN  /\ text # "" /\ Len(text) > 15
                       /\ Contains(a.href, "hirelateral.com")
                       /\ (Contains(a.href, "/job/") \/ Contains(a.href, "/government"))
    IN  Take(UniqueLinks(ItemsRaw(SelectSeq(anchors, Keep))), SCRAPER_LIMIT)

NCS_BASE == "https://www.ncs.gov.in"

\* scrape_ncs_gov(): the scraper main does not list in its sources
scrape_ncs_gov(anchors) ==
    LET Keep(a) == LET text == clean(a.text)
                   IN  /\ text # "" /\ Len(text) > 15
                       /\ (Contains(Lower(a.href), "job") \/ Contains(Lower(a.href), "career"))
    IN  Take(ItemsOf(SelectSeq(anchors, Keep), NCS_BASE), SCRAPER_LIMIT)

\* func() for the entry name of sources, given the anchors of the page it fetched
Scrape(name, anchors) ==
    CASE name = "FreeJobAlert"   -> scrape_freejobalert(anchors)
      [] name = "SarkariNaukri"  -> scrape_sarkarinaukri(anchors)
      [] name = "FreshersLive"   -> scrape_fresherslive(anchors)
      [] name = "EmploymentNews" -> scrape_employment_news(anchors)
      [] name = "HireLateral"    -> scrape_hirelateral(anchors)

\* what each scraper returns for each outcome of its fetches, computed once
ScrapeTable ==
    [i \in DOMAIN sources |->
        [k \in 0..Len(ListingUrls(sources[i])) |->
            Scrape(sources[i], FetchedAnchors(sources[i], k))]]

\* every item a scraper can return
ItemPool ==
    UNION {UNION {Range(ScrapeTable[i][k]) : k \in DOMAIN ScrapeTable[i]} : i \in DOMAIN sources}

\* the length of the dedup key of main ("[:50]")
KEY_LEN == 50

\* the least length of a key main keeps ("len(key) > 10")
KEY_MIN == 10

\* key = clean(t).lower()[:50]
DedupKey(t) == Prefix(NormTitle(t), KEY_LEN)

\* the test of the "Dedupe" loop without "key not in seen"
KeepsKey_unseen(key, seen) == Len(key) > KEY_MIN

\* whether the "Dedupe" loop of main keeps an item with this key
KeepsKey(key, seen) == key \notin seen /\ Len(key) > KEY_MIN

RECURSIVE DedupeFrom(_, _, _)
DedupeFrom(items, i, seen) ==
    IF i > Len(items) THEN <<>>
    ELSE LET key == DedupKey(items[i].title)
         IN  IF KeepsKey(key, seen)
             THEN <<items[i]>> \o DedupeFrom(items, i + 1, seen \cup {key})
             ELSE DedupeFrom(items, i + 1, seen)

\* the list "unique" main makes of all_items
Dedupe(items) == DedupeFrom(items, 1, {})

(***************************************************************************)
(* main() of scripts/scraper.py                                            *)
(***************************************************************************)
\* MAX_ITEMS of the environment
MAX_ITEMS == 2

\* the runs of main the model follows, one after the other
Runs == 2

VARIABLES
    timeline,   \* the requests and sleeps since the last POST, the POST first
    env,        \* os.environ: WP_SITE_URL, WP_USERNAME, WP_APP_PASSWORD
    run,        \* the number of the run of main in progress
    pc,         \* where main is
    src,        \* the index in sources of the next scraper to call
    all_items,  \* all_items
    unique,     \* unique
    idx,        \* the position in unique[:MAX_ITEMS] of the item in the loop
    posted,     \* posted
    skipped,    \* skipped
    cat,        \* cat, 0 before detect_category
    html_ok,    \* whether fetch(link) of build_content returned a page
    content,    \* content, NoContent before build_content
    sent,       \* what wp_post was called with for this item, <<>> before
    stages,     \* the steps taken for the item in the loop, in order
    outcomes,   \* the outcome logged for each item of the loop so far
    creates,    \* the calls of wp_post of this run: title and whether it stored it
    report,     \* the counts of the "COMPLETED!" line, <<>> before it
    store,      \* the content store
    j_pc,       \* where JobScraper.run is
    j_cat,      \* the index in Categories of the category in progress
    j_links,    \* links[:MAX_ITEMS] of process_category
    j_li,       \* the position in j_links of the link in the loop
    j_article,  \* (title, content) of parse_article for that link
    j_stats,    \* self.stats
    j_posted,   \* total_posted of run, with posted_count of the category in progress
    j_creates,  \* the calls of wp_create_post that sent a request: title, answer
    fn_op,      \* the function applied to fn_in, "none" before
    fn_in,      \* the arguments a function is applied to
    fn_out      \* what it returned

mainvars == <<run, pc, src, all_items, unique, idx, posted, skipped, cat, html_ok,
              content, sent, stages, outcomes, creates, report>>

jvars == <<j_pc, j_cat, j_links, j_li, j_article, j_stats, j_posted, j_creates>>

fnvars == <<fn_op, fn_in, fn_out>>

vars == <<env, timeline, mainvars, store, jvars, fnvars>>

NoContent == [template |-> "none"]

\* build_content and detect_category for every item of the pool, computed once
ContentTable ==
    [it \in ItemPool |->
        [ok \in BOOLEAN |->
            build_content(it.title, it.link, IF ok THEN DetailPage(it.link) ELSE Unfetched)]]

CategoryTable == [it \in ItemPool |-> detect_category(it.title)]

\* the items the loop of main goes over: unique[:MAX_ITEMS]
Batch == Take(unique, MAX_ITEMS)

\* the item of the loop in progress
Item == Batch[idx]

\* the loop variables before an item is taken up
ItemReset ==
    /\ cat' = 0
    /\ html_ok' = FALSE
    /\ content' = NoContent
    /\ sent' = <<>>
    /\ stages' = <<>>

NoArticle == [title |-> "", content |-> ""]

\* JobScraper not started
JIdle ==
    /\ j_pc = "idle"
    /\ j_cat = 0
    /\ j_links = <<>>
    /\ j_li = 0
    /\ j_article = NoArticle
    /\ j_stats = [total_processed |-> 0, total_posted |-> 0, total_skipped |-> 0, total_errors |-> 0]
    /\ j_posted = 0
    /\ j_creates = <<>>

\* no function applied
FnIdle ==
    /\ fn_op = "none"
    /\ fn_in = <<>>
    /\ fn_out = <<>>

Init ==
    /\ JIdle
    /\ FnIdle
    /\ env \in Envs
    /\ timeline = <<>>
    /\ run = 1
    /\ pc = "start"
    /\ src = 1
    /\ all_items = <<>>
    /\ unique = <<>>
    /\ idx = 0
    /\ posted = 0
    /\ skipped = 0
    /\ cat = 0
    /\ html_ok = FALSE
    /\ content = NoContent
    /\ sent = <<>>
    /\ stages = <<>>
    /\ outcomes = <<>>
    /\ creates = <<>>
    /\ report = <<>>
    /\ store \in InitialStores

\* the start of main(): the credentials are read and stripped, and main exits
\* with status 1 when one of them is empty
Configure ==
    /\ pc = "start"
    /\ LET WP_SITE == Strip(env.WP_SITE_URL)
           WP_USER == Strip(env.WP_USERNAME)
           WP_PASS == Strip(env.WP_APP_PASSWORD)
       IN  pc' = IF ~all(<<WP_SITE, WP_USER, WP_PASS>>) THEN "exit(1)" ELSE "harvest"
    /\ UNCHANGED <<run, src, all_items, unique, idx, posted, skipped, cat, html_ok, content,
                   sent, stages, outcomes, creates, report, store>>
    /\ UNCHANGED <<env, jvars, fnvars>>
    /\ UNCHANGED timeline

\* one round of "for name, func in sources": func() fetches its listing page
\* (each fetch may fail) and its items are added to all_items
Harvest ==
    /\ pc = "harvest"
    /\ \E k \in 0..Len(ListingUrls(sources[src])) :
          /\ all_items' = all_items \o ScrapeTable[src][k]
          /\ timeline' = timeline \o Fetches(ListingUrls(sources[src]), 1,
                                               IF k = 0 THEN Len(ListingUrls(sources[src])) ELSE k)
    /\ src' = src + 1
    /\ pc' = IF src = Len(sources) THEN "dedupe" ELSE "harvest"
    /\ UNCHANGED <<run, unique, idx, posted, skipped, cat, html_ok, content, sent,
                   stages, outcomes, creates, report, store>>
    /\ UNCHANGED <<env, jvars, fnvars>>

\* where main goes when the item at position i is done
AfterItem(i) == IF i < Len(Batch) THEN "exists" ELSE "report"

\* the "Dedupe" loop, "if not unique: return", and the start of the publish loop
DedupeItems ==
    /\ pc = "dedupe"
    /\ unique' = Dedupe(all_items)
    /\ IF unique' = <<>>
       THEN pc' = "done" /\ idx' = 0
       ELSE pc' = "exists" /\ idx' = 1
    /\ posted' = 0
    /\ skipped' = 0
    /\ UNCHANGED <<run, src, all_items, cat, html_ok, content, sent, stages,
                   outcomes, creates, report, store>>
    /\ UNCHANGED <<env, jvars, fnvars>>
    /\ UNCHANGED timeline

\* "if wp_exists(...): skipped += 1; continue"
CheckExists ==
    /\ pc = "exists"
    /\ \E r \in ExistsResponses(store, Item.title) :
          /\ timeline' = Append(timeline, SearchEvent(r))
          /\ IF wp_exists(Item.title, r)
             THEN /\ skipped' = skipped + 1
                  /\ outcomes' = Append(outcomes, "Skipped")
                  /\ pc' = AfterItem(idx)
                  /\ idx' = idx + 1
                  /\ stages' = <<>>
             ELSE /\ pc' = "classify"
                  /\ stages' = Append(stages, "exists(title)")
                  /\ UNCHANGED <<skipped, outcomes, idx>>
    /\ UNCHANGED <<run, src, all_items, unique, posted, cat, html_ok, content, sent,
                   creates, report, store>>
    /\ UNCHANGED <<env, jvars, fnvars>>

\* "cat = detect_category(title)"
Classify ==
    /\ pc = "classify"
    /\ cat' = CategoryTable[Item]
    /\ stages' = Append(stages, "classify")
    /\ pc' = "build"
    /\ UNCHANGED <<run, src, all_items, unique, idx, posted, skipped, html_ok, content,
                   sent, outcomes, creates, report, store>>
    /\ UNCHANGED <<env, jvars, fnvars>>
    /\ UNCHANGED timeline

\* "content = build_content(title, link)": the fetch of the detail page may fail
Build ==
    /\ pc = "build"
    /\ \E ok \in BOOLEAN :
          /\ html_ok' = ok
          /\ content' = ContentTable[Item][ok]
    /\ stages' = stages \o (IF html_ok' THEN <<"fetch", "extract", "compose">>
                                        ELSE <<"fetch", "compose">>)
    /\ pc' = "post"
    /\ UNCHANGED <<run, src, all_items, unique, idx, posted, skipped, cat, sent,
                   outcomes, creates, report, store>>
    /\ UNCHANGED <<env, jvars, fnvars>>
    /\ timeline' = timeline \o fetch(Item.link)

\* a loop whose "except" ends the run when the POST raised
AfterPost_abort(r) == IF r = "exception" THEN "done" ELSE "sleep"

\* where main goes after wp_post: wp_post catches what its request raises and
\* returns None, so the loop goes on to its sleep; when the "Posted" line
\* raises, the "except Exception" of the loop takes over
AfterPost(r) == IF wp_post(r) /\ PostedLogRaises(r) THEN "except" ELSE "sleep"

\* "result = wp_post(...)" and the "if result:" that logs and counts it
Post ==
    /\ pc = "post"
    /\ \E r \in PostResponses :
          /\ store' = StoreAfterPost(store, Item.title, r)
          /\ creates' = Append(creates, [title |-> Item.title, stored |-> r = "created"])
          /\ posted' = IF wp_post(r) /\ ~PostedLogRaises(r) THEN posted + 1 ELSE posted
          /\ outcomes' = Append(outcomes, IF wp_post(r) /\ ~PostedLogRaises(r)
                                          THEN "Published" ELSE "PublishFailed")
          /\ pc' = AfterPost(r)
    /\ sent' = [title |-> Item.title, content |-> content, cat |-> cat]
    /\ stages' = Append(stages, "create")
    /\ UNCHANGED <<run, src, all_items, unique, idx, skipped, cat, html_ok, content, report>>
    /\ UNCHANGED <<env, jvars, fnvars>>
    /\ timeline' = <<"POST">>

\* "except Exception as e: log(...)" of the loop: the rest of the round, its
\* time.sleep(SLEEP) included, is left out and the next round begins
Except ==
    /\ pc = "except"
    /\ pc' = AfterItem(idx)
    /\ idx' = idx + 1
    /\ ItemReset
    /\ UNCHANGED <<run, src, all_items, unique, posted, skipped, outcomes, creates,
                   report, store>>
    /\ UNCHANGED <<env, jvars, fnvars>>
    /\ UNCHANGED timeline

\* "time.sleep(SLEEP)" and the next round of the loop
Sleep ==
    /\ pc = "sleep"
    /\ pc' = AfterItem(idx)
    /\ idx' = idx + 1
    /\ ItemReset
    /\ UNCHANGED <<run, src, all_items, unique, posted, skipped, outcomes, creates,
                   report, store>>
    /\ UNCHANGED <<env, jvars, fnvars>>
    /\ timeline' = Append(timeline, "sleep(SLEEP)")

\* the "COMPLETED!" line
Report ==
    /\ pc = "report"
    /\ report' = [posted |-> posted, skipped |-> skipped]
    /\ pc' = "done"
    /\ UNCHANGED <<run, src, all_items, unique, idx, posted, skipped, cat, html_ok,
                   content, sent, stages, outcomes, creates, store>>
    /\ UNCHANGED <<env, jvars, fnvars>>
    /\ UNCHANGED timeline

\* the next scheduled run of main: the sources are unchanged, so its scrapers
\* return the items of the run before; everything else starts afresh
NextRun ==
    /\ pc = "done"
    /\ run < Runs
    /\ run' = run + 1
    /\ pc' = "dedupe"
    /\ unique' = <<>>
    /\ idx' = 0
    /\ posted' = 0
    /\ skipped' = 0
    /\ outcomes' = <<>>
    /\ creates' = <<>>
    /\ report' = <<>>
    /\ UNCHANGED <<src, all_items, cat, html_ok, content, sent, stages, store>>
    /\ UNCHANGED <<env, jvars, fnvars>>
    /\ timeline' = <<>>

\* one run of main(), step by step
main ==
    \/ Configure
    \/ Harvest
    \/ DedupeItems
    \/ CheckExists
    \/ Classify
    \/ Build
    \/ Post
    \/ Except
    \/ Sleep
    \/ Report

Next ==
    \/ main
    \/ NextRun

Spec == Init /\ [][Next]_vars

\* one run of main: main is one thread, and every request and sleep of it ends
\* (each request has a timeout), so a step that can be taken is taken
LiveSpec == Init /\ [][main]_vars /\ WF_vars(main)

(***************************************************************************)
(* JobScraper of scripts/scripts/scraper.py                                *)
(***************************************************************************)
RECURSIVE JLinksFrom(_, _, _, _)
JLinksFrom(anchors, base_url, i, links) ==
    IF i > Len(anchors) THEN links
    ELSE LET text == Lower(Strip(anchors[i].text))
             full_url == urljoin(base_url, anchors[i].href)
         IN  IF ContainsAny(text, {"details", "read more", "apply"}) /\ full_url \notin Range(links)
             THEN JLinksFrom(anchors, base_url, i + 1, Append(links, full_url))
             ELSE JLinksFrom(anchors, base_url, i + 1, links)

\* JobScraper.extract_links(html, base_url), given the anchors of the page
JExtractLinks(anchors, base_url) == JLinksFrom(anchors, base_url, 1, <<>>)

\* what process_category gets for each category whose page was fetched
JLinksTable == [c \in DOMAIN Categories |-> JExtractLinks(CategoryPage(Categories[c].url), Categories[c].url)]

\* the length the <title> text is cut to in parse_article
TITLE_TAG_LEN == 100

RECURSIVE JoinParas(_, _)
\* "\n".join(f"<p>{p.get_text(strip=True)}</p>" for p in paragraphs)
JoinParas(paras, i) ==
    IF i > Len(paras) THEN ""
    ELSE "<p>" \o Strip(paras[i]) \o "</p>" \o (IF i < Len(paras) THEN "\n" ELSE "")
         \o JoinParas(paras, i + 1)

\* the number of paragraphs parse_article keeps
PARAS_LIMIT == 30

\* parse_article(html)
parse_article(page) ==
    LET h1title == Strip(page.h1)
        title == IF h1title # "" THEN h1title ELSE Prefix(Strip(page.title), TITLE_TAG_LEN)
        content_html ==
            IF page.element # "" THEN page.element
            ELSE IF page.paras # <<>> THEN JoinParas(Take(page.paras, PARAS_LIMIT), 1)
            ELSE "<p>Content not available</p>"
    IN  [title |-> IF title # "" THEN title ELSE "Job Post", content |-> content_html]

ArticleTable == [l \in ArticleLinks |-> parse_article(ArticlePage(l))]

StripLowerTable == Tabulate([t \in TitlePool |-> Lower(Strip(t))], TitlePool)

\* title.strip().lower()
StripLower(t) == IF t \in TitlePool THEN StripLowerTable[t] ELSE Lower(Strip(t))

\* what the GET of wp_post_exists can come back with; its search parameter is
\* the whole title
JExistsResponses(st, title) ==
    {[kind |-> "exception", posts |-> {}], [kind |-> "status", posts |-> {}]}
    \cup {[kind |-> "ok", posts |-> {st[i] : i \in W}] : W \in SearchPages(st, NormTitle(title))}

\* wp_post_exists(title), given the answer r of its request
wp_post_exists(title, r) ==
    /\ r.kind = "ok"
    /\ \E p \in r.posts : StripLower(p) = StripLower(title)

\* the length wp_create_post cuts the title to
POST_TITLE_LEN == 200

\* the title wp_create_post sends
PostTitle(title) == Prefix(title, POST_TITLE_LEN)

\* whether wp_create_post sends a request at all ("if not title or not content")
SendsPost(title, body) == title # "" /\ body # ""

\* a stats counter raised by one
Bump(stats, key) == [stats EXCEPT ![key] = @ + 1]

JInitialStores ==
    { <<>>, <<"SSC CGL 2025 Recruitment">>, <<"upsc admit card 2025 and result">> }

JInit ==
    /\ run = 0
    /\ pc = "idle"
    /\ src = 0
    /\ all_items = <<>>
    /\ unique = <<>>
    /\ idx = 0
    /\ posted = 0
    /\ skipped = 0
    /\ cat = 0
    /\ html_ok = FALSE
    /\ content = NoContent
    /\ sent = <<>>
    /\ stages = <<>>
    /\ outcomes = <<>>
    /\ creates = <<>>
    /\ report = <<>>
    /\ FnIdle
    /\ store \in JInitialStores
    /\ env \in Envs
    /\ timeline = <<>>
    /\ j_pc = "start"
    /\ j_cat = 1
    /\ j_links = <<>>
    /\ j_li = 0
    /\ j_article = NoArticle
    /\ j_stats = [total_processed |-> 0, total_posted |-> 0, total_skipped |-> 0, total_errors |-> 0]
    /\ j_posted = 0
    /\ j_creates = <<>>

\* the module-level configuration of scripts/scripts/scraper.py: the script
\* exits with status 1 when one of the three values is empty, before a
\* JobScraper is made
JConfigure ==
    /\ j_pc = "start"
    /\ LET WP_SITE_URL == RStripSlash(env.WP_SITE_URL)
           WP_USERNAME == env.WP_USERNAME
           WP_APP_PASSWORD == env.WP_APP_PASSWORD
       IN  j_pc' = IF ~all(<<WP_SITE_URL, WP_USERNAME, WP_APP_PASSWORD>>)
                   THEN "exit(1)" ELSE "category"
    /\ UNCHANGED <<j_cat, j_links, j_li, j_article, j_stats, j_posted, j_creates, store,
                   mainvars, fnvars, env>>
    /\ UNCHANGED timeline

\* the end of process_category (any of its returns) and the next round of
\* "for category_url in categories"
JNextCategory ==
    /\ j_cat' = j_cat + 1
    /\ j_pc' = IF j_cat < Len(Categories) THEN "category" ELSE "summary"
    /\ j_links' = <<>>
    /\ j_li' = 0
    /\ j_article' = NoArticle

\* the end of one round of "for link in links[:MAX_ITEMS]"
JNextLink ==
    IF j_li < Len(j_links)
    THEN /\ j_li' = j_li + 1
         /\ j_pc' = "article"
         /\ j_article' = NoArticle
         /\ UNCHANGED <<j_cat, j_links>>
    ELSE JNextCategory

\* process_category up to its loop: fetch_page(category_url), extract_links
JFetchCategory ==
    /\ j_pc = "category"
    /\ \E ok \in BOOLEAN :
          IF ~ok
          THEN /\ j_stats' = Bump(j_stats, "total_errors")
               /\ JNextCategory
          ELSE /\ UNCHANGED j_stats
               /\ IF JLinksTable[j_cat] = <<>>
                  THEN JNextCategory
                  ELSE /\ j_links' = Take(JLinksTable[j_cat], MAX_ITEMS)
                       /\ j_li' = 1
                       /\ j_pc' = "article"
                       /\ UNCHANGED <<j_cat, j_article>>
    /\ UNCHANGED <<j_posted, j_creates, store, mainvars, fnvars, env>>
    /\ timeline' = timeline \o fetch_page(Categories[j_cat].url)

\* "total_processed += 1", fetch_page(link) and parse_article
JFetchArticle ==
    /\ j_pc = "article"
    /\ \E ok \in BOOLEAN :
          IF ~ok
          THEN /\ j_stats' = Bump(Bump(j_stats, "total_processed"), "total_errors")
               /\ JNextLink
          ELSE /\ j_stats' = Bump(j_stats, "total_processed")
               /\ j_article' = IF j_links[j_li] \in ArticleLinks
                               THEN ArticleTable[j_links[j_li]]
                               ELSE parse_article(ArticlePage(j_links[j_li]))
               /\ j_pc' = "exists"
               /\ UNCHANGED <<j_cat, j_links, j_li>>
    /\ UNCHANGED <<j_posted, j_creates, store, mainvars, fnvars, env>>
    /\ timeline' = timeline \o fetch_page(j_links[j_li])

\* "if not title or not content: continue" and "if self.wp_post_exists(title): continue"
JCheckExists ==
    /\ j_pc = "exists"
    /\ IF j_article.title = "" \/ j_article.content = ""
       THEN JNextLink /\ UNCHANGED <<j_stats, timeline>>
       ELSE \E r \in JExistsResponses(store, j_article.title) :
               /\ timeline' = Append(timeline, SearchEvent(r))
               /\ IF wp_post_exists(j_article.title, r)
                  THEN /\ j_stats' = Bump(j_stats, "total_skipped")
                       /\ JNextLink
                  ELSE /\ j_pc' = "create"
                       /\ UNCHANGED <<j_stats, j_cat, j_links, j_li, j_article>>
    /\ UNCHANGED <<j_posted, j_creates, store, mainvars, fnvars, env>>

\* "if self.wp_create_post(title, content, site_name): posted_count += 1"
JCreate ==
    /\ j_pc = "create"
    /\ IF ~SendsPost(j_article.title, j_article.content)
       THEN UNCHANGED <<store, j_creates, j_stats, j_posted>>
       ELSE \E r \in JPostResponses :
               /\ store' = StoreAfterPost(store, PostTitle(j_article.title), r)
               /\ j_creates' = Append(j_creates, [title |-> j_article.title, answer |-> r])
               /\ j_stats' = Bump(j_stats, IF r = "created" THEN "total_posted" ELSE "total_errors")
               /\ j_posted' = IF r = "created" THEN j_posted + 1 ELSE j_posted
    /\ j_pc' = "sleep"
    /\ UNCHANGED <<j_cat, j_links, j_li, j_article, mainvars, fnvars, env>>
    /\ timeline' = IF SendsPost(j_article.title, j_article.content)
                   THEN <<"POST">> ELSE timeline

\* "time.sleep(SLEEP_BETWEEN_POSTS)" and the next round of the loop
JSleep ==
    /\ j_pc = "sleep"
    /\ JNextLink
    /\ UNCHANGED <<j_stats, j_posted, j_creates, store, mainvars, fnvars, env>>
    /\ timeline' = Append(timeline, "sleep(SLEEP)")

\* the SUMMARY lines of run
JSummary ==
    /\ j_pc = "summary"
    /\ j_pc' = "done"
    /\ UNCHANGED <<j_cat, j_links, j_li, j_article, j_stats, j_posted, j_creates, store,
                   mainvars, fnvars, env>>
    /\ UNCHANGED timeline

JNext ==
    \/ JConfigure
    \/ JFetchCategory
    \/ JFetchArticle
    \/ JCheckExists
    \/ JCreate
    \/ JSleep
    \/ JSummary

JSpec == JInit /\ [][JNext]_vars

(***************************************************************************)
(* The functions on their own: each is applied once to arguments drawn     *)
(* from the pools                                                          *)
(***************************************************************************)
FnStores ==
    InitialStores \cup JInitialStores
    \cup { <<"  SSC CGL 2025   Recruitment ">>, <<"Online Form: SSC CGL 2025">>, <<VeryLongTitle>> }

\* a detail page with the sibling elements given and nothing else
FaqPage(body) == [PlainPage(TRUE, "Frequently Asked Questions") EXCEPT !.body = body]

Q(n) == Elem("p", "Question " \o n \o ": how to apply for the post?")

\* detail pages for extract_faq: no FAQ heading, one with few and with many
\* entries, two FAQ headings, an h4 inside a FAQ section
FaqPages ==
    { SscPage,
      FaqPage(<< Elem("h2", "Overview"), Q("1"), Q("2") >>),
      FaqPage(<< Elem("h2", "FAQ"), Q("1"), Elem("p", "Short"), Q("2"), Elem("h2", "Links"), Q("3") >>),
      FaqPage(<< Elem("h3", "Frequently Asked Questions"),
                 Q("1"), Q("2"), Q("3"), Q("4"), Q("5"), Q("6"), Q("7") >>),
      FaqPage(<< Elem("h2", "FAQ"), Q("1"), Q("2"), Q("3"), Q("4"), Q("5"),
                 Elem("h3", "Important Questions"), Q("6"), Q("7") >>),
      FaqPage(<< Elem("h2", "FAQs"), Q("1"), Q("2"), Q("3"),
                 Elem("h4", "More questions on the fee"), Q("4"), Q("5"), Q("6") >>) }

\* a detail page with the anchors given and nothing else
LinkPage(anchors) == [PlainPage(TRUE, "Important Links") EXCEPT !.anchors = anchors]

\* detail pages for extract_links: no anchor, relative and aggregator links
\* only, one target under two texts, one anchor with the words of two labels
LinkPages ==
    { LinkPage(<<>>),
      LinkPage(<< A("Apply Online", "/apply", FALSE),
                  A("Official Website", "https://www.sarkariresult.com/", FALSE),
                  A("Download PDF", "https://www.FreeJobAlert.com/n.pdf", FALSE) >>),
      LinkPage(<< A("Apply Online", "https://upsc.gov.in/exam", FALSE),
                  A("Download Notification", "https://upsc.gov.in/exam", FALSE),
                  A("Official Website", "https://upsc.gov.in", FALSE) >>),
      LinkPage(<< A("Official Website", "https://ibps.in", FALSE),
                  A("Apply Online or Download PDF", "https://ibps.in/apply", FALSE),
                  A("Registration PDF", "https://ibps.in/form.pdf", FALSE),
                  A("Visit Website to Apply", "https://ibps.in/", FALSE) >>) }

\* the page scrape_ncs_gov fetches: one job linked twice
NcsPage ==
    << A("Railway Recruitment Board Jobs 2025", "/job-seeker/jobs/rrb-2025", FALSE),
       A("Contact", "/contact", FALSE),
       A("Staff Nurse Vacancy at AIIMS Delhi", "https://www.ncs.gov.in/careers/aiims", FALSE),
       A("RRB 2025: apply before the last date", "/job-seeker/jobs/rrb-2025", FALSE) >>

\* the harvesters: the scrapers of sources, scrape_ncs_gov, and extract_links
\* of JobScraper
Harvesters == Range(sources) \cup {"NCS", "JobScraper"}

\* the base url a harvester resolves relative links with
BaseOf(name) ==
    CASE name = "FreeJobAlert"   -> FJA_BASE
      [] name = "SarkariNaukri"  -> SN_BASE
      [] name = "FreshersLive"   -> FL_BASE
      [] name = "EmploymentNews" -> EN_BASE
      [] name = "HireLateral"    -> HL_BASE
      [] name = "NCS"            -> NCS_BASE
      [] name = "JobScraper"     -> Categories[1].url

\* the candidates of a harvester for the anchors of its listing page, each
\* with its link
HarvestOf(name, anchors) ==
    CASE name = "NCS" -> scrape_ncs_gov(anchors)
      [] name = "JobScraper" ->
            LET links == JExtractLinks(anchors, BaseOf(name))
            IN  [i \in DOMAIN links |-> [link |-> links[i]]]
      [] OTHER -> Scrape(name, anchors)

\* the listing pages the harvesters are applied to, the page without anchors
\* (or not fetched) among them
HarvestPages ==
    {<<>>, NcsPage}
    \cup {ListingPage(u) : u \in ListingUrlSet}
    \cup {CategoryPage(Categories[c].url) : c \in DOMAIN Categories}

\* the arguments a function is applied to
FnInputs ==
    [title : FnTitles, store : FnStores]
    \cup {[page |-> p] : p \in FaqPages \cup LinkPages}
    \cup [harvester : Harvesters, anchors : HarvestPages]

FnInit ==
    /\ run = 0
    /\ pc = "idle"
    /\ src = 0
    /\ all_items = <<>>
    /\ unique = <<>>
    /\ idx = 0
    /\ posted = 0
    /\ skipped = 0
    /\ cat = 0
    /\ html_ok = FALSE
    /\ content = NoContent
    /\ sent = <<>>
    /\ stages = <<>>
    /\ outcomes = <<>>
    /\ creates = <<>>
    /\ report = <<>>
    /\ JIdle
    /\ fn_op = "none"
    /\ fn_out = <<>>
    /\ fn_in \in FnInputs
    /\ env = Environ("https://rojgarbhaskar.com/", "bot", "abcd efgh")
    /\ timeline = <<>>
    /\ store = IF "store" \in DOMAIN fn_in THEN fn_in.store ELSE <<>>

FnDetectCategory ==
    /\ fn_op = "none"
    /\ "title" \in DOMAIN fn_in
    /\ fn_op' = "detect_category"
    /\ fn_out' = detect_category(fn_in.title)
    /\ UNCHANGED <<fn_in, store, mainvars, jvars, env>>
    /\ UNCHANGED timeline

FnWpExists ==
    /\ fn_op = "none"
    /\ "title" \in DOMAIN fn_in
    /\ fn_op' = "wp_exists"
    /\ \E r \in ExistsResponses(store, fn_in.title) :
          fn_out' = [answer |-> r.kind, exists |-> wp_exists(fn_in.title, r)]
    /\ UNCHANGED <<fn_in, store, mainvars, jvars, env>>
    /\ UNCHANGED timeline

FnWpPostExists ==
    /\ fn_op = "none"
    /\ "title" \in DOMAIN fn_in
    /\ fn_op' = "wp_post_exists"
    /\ \E r \in JExistsResponses(store, fn_in.title) :
          fn_out' = [answer |-> r.kind, exists |-> wp_post_exists(fn_in.title, r)]
    /\ UNCHANGED <<fn_in, store, mainvars, jvars, env>>
    /\ UNCHANGED timeline

FnExtractFaq ==
    /\ fn_op = "none"
    /\ "page" \in DOMAIN fn_in
    /\ fn_op' = "extract_faq"
    /\ fn_out' = extract_faq(fn_in.page)
    /\ UNCHANGED <<fn_in, store, mainvars, jvars, env>>
    /\ UNCHANGED timeline

FnExtractLinks ==
    /\ fn_op = "none"
    /\ "page" \in DOMAIN fn_in
    /\ fn_op' = "extract_links"
    /\ fn_out' = extract_links(fn_in.page)
    /\ UNCHANGED <<fn_in, store, mainvars, jvars, env>>
    /\ UNCHANGED timeline

FnHarvest ==
    /\ fn_op = "none"
    /\ "harvester" \in DOMAIN fn_in
    /\ fn_op' = "harvest"
    /\ fn_out' = HarvestOf(fn_in.harvester, fn_in.anchors)
    /\ UNCHANGED <<fn_in, store, mainvars, jvars, env>>
    /\ UNCHANGED timeline

\* wp_create_post(title, ...) answered with 201 by a store that keeps the title
\* it was sent, and then wp_post_exists(title) with the title the caller holds
FnCreateThenExists ==
    /\ fn_op = "none"
    /\ "title" \in DOMAIN fn_in
    /\ SendsPost(fn_in.title, "<p>Content not available</p>")
    /\ fn_op' = "wp_create_post; wp_post_exists"
    /\ store' = StoreAfterPost(store, PostTitle(fn_in.title), "created")
    /\ \E r \in JExistsResponses(store', fn_in.title) :
          fn_out' = [answer |-> r.kind,
                     matches |-> Cardinality(SearchMatches(store', NormTitle(fn_in.title))),
                     exists |-> wp_post_exists(fn_in.title, r)]
    /\ UNCHANGED <<fn_in, mainvars, jvars, env>>
    /\ UNCHANGED timeline

FnNext ==
    \/ FnHarvest
    \/ FnCreateThenExists
    \/ FnExtractFaq
    \/ FnExtractLinks
    \/ FnDetectCategory
    \/ FnWpExists
    \/ FnWpPostExists

FnSpec == FnInit /\ [][FnNext]_vars

(***************************************************************************)
(* Properties of main                                                      *)
(***************************************************************************)
\* C1: when main runs a second time on the same harvested items and a store that
\* only its own wp_post calls changed, the second run stores no new item.
C1_SecondRunCreatesNothing ==
    run = 2 => \A i \in DOMAIN creates : ~creates[i].stored

\* C3: before every call of wp_post the dedup gate was consulted twice: with the
\* candidate's title before the detail fetch, and with the title resolved from
\* the detail page after the document was composed.
C3_TwoPhaseDedup ==
    pc = "sleep" =>
        \E i, f, c, j, k \in DOMAIN stages :
            /\ i < f /\ f < c /\ c < j /\ j < k
            /\ stages[i] = "exists(title)"
            /\ stages[f] = "fetch"
            /\ stages[c] = "compose"
            /\ stages[j] = "exists(final_title)"
            /\ stages[k] = "create"

\* the dedup key of a title as the claim words it: case-folded, white space
\* collapsed, cut to 50 characters
LogicalKeyTable == Tabulate([t \in TitlePool |-> Prefix(Lower(clean(t)), 50)], TitlePool)

\* C4: within one run wp_post is called at most once for any dedup key, whatever
\* the scrapers returned and however the earlier store calls ended.
C4_OneCreatePerKey ==
    \A i, j \in DOMAIN creates :
        i # j => LogicalKeyTable[creates[i].title] # LogicalKeyTable[creates[j].title]

\* two harvested items share a dedup key, and wp_post was called for that key
C4_Witness ==
    \E i, j \in DOMAIN all_items, c \in DOMAIN creates :
        /\ i < j
        /\ all_items[i].title # all_items[j].title
        /\ LogicalKeyTable[all_items[i].title] = LogicalKeyTable[all_items[j].title]
        /\ LogicalKeyTable[creates[c].title] = LogicalKeyTable[all_items[i].title]
        /\ Len(creates) = 2

\* a url of a blocked or excluded aggregator domain
IsAggregator(url) == is_blocked(url) \/ ContainsAny(Lower(url), excluded_in_output)

\* C7: no link of the Important Links section of a document build_content
\* composed from a detail page points to an aggregator domain.
C7_NoAggregatorLink ==
    (pc = "post" /\ content.template = "full") =>
        \A i \in DOMAIN content.links : ~IsAggregator(content.links[i].href)

\* the count the "COMPLETED!" line gives for a kind of outcome, 0 when it has none
Reported(kind) == IF kind \in DOMAIN report THEN report[kind] ELSE 0

\* C8: at the end of a run the reported counts add up: every item of the loop is
\* counted as skipped, posted or failed.
C8_CountsAddUp ==
    (pc = "done" /\ unique # <<>>) =>
        Len(Batch) = Reported("skipped") + Reported("posted") + Reported("failed")

\* the outcomes a candidate ends in
Terminal == {"Skipped", "Published", "PublishFailed"}

\* every one of the first MAX_ITEMS unique candidates has its outcome
AllTerminal ==
    /\ Len(outcomes) = Len(Take(Dedupe(all_items), MAX_ITEMS))
    /\ \A i \in DOMAIN outcomes : outcomes[i] \in Terminal

\* C9: whatever fetches and store calls fail, a run of main ends, and at its end
\* every one of the first MAX_ITEMS unique candidates has reached its outcome.
C9_RunCompletes ==
    /\ [](pc = "done" => AllTerminal)
    /\ (pc \notin {"start", "exit(1)", "done"}) ~> (pc = "done")

\* a run ended in which the wp_post of the first item failed and the second
\* item was still processed
C9_Witness ==
    /\ pc = "done"
    /\ Len(outcomes) = 2
    /\ outcomes[1] = "PublishFailed"

\* the document of C10: the candidate's title and the link to its source only
IsFallbackOf(doc, item) ==
    /\ doc.template = "simple"
    /\ doc.h1 = item.title
    /\ [i \in DOMAIN doc.links |-> doc.links[i].href] = <<item.link>>
    /\ DOMAIN doc.details = {}
    /\ doc.faqs = <<>>

\* C10: when the fetch of the detail page fails, build_content returns the
\* fallback document (title and source link only) and main calls wp_post with it.
C10_FallbackOnFetchFailure ==
    /\ [][(pc = "build" /\ ~html_ok') => (pc' = "post" /\ IsFallbackOf(content', Item))]_vars
    /\ [][(pc = "post" /\ ~html_ok) =>
            (pc' \in {"sleep", "except"} /\ Len(creates') = Len(creates) + 1
               /\ sent'.title = Item.title /\ IsFallbackOf(sent'.content, Item))]_vars

\* wp_post was called with the fallback document after a failed detail fetch
C10_Witness ==
    /\ pc = "sleep"
    /\ ~html_ok
    /\ sent.content.template = "simple"
    /\ creates[Len(creates)].title = Item.title

(***************************************************************************)
(* Properties of the functions and of JobScraper                           *)
(***************************************************************************)
\* the normalized title is a prefix, a suffix or the whole of a title of the store
ContainmentMatch(title, st) ==
    \E i \in DOMAIN st :
        \/ StartsWith(NormTitle(st[i]), NormTitle(title))
        \/ EndsWith(NormTitle(st[i]), NormTitle(title))

\* C2: when the store answers the search, the dedup gate says "exists" exactly
\* for the titles that are, normalized, a prefix, a suffix or the whole of a
\* title of the store.
C2_ContainmentRule ==
    (fn_op \in {"wp_exists", "wp_post_exists"} /\ fn_out.answer = "ok") =>
        (fn_out.exists <=> ContainmentMatch(fn_in.title, fn_in.store))

\* C5: in one run of JobScraper no wp_create_post is attempted for a title
\* after a wp_create_post for that title failed.
C5_NoRetryAfterFailure ==
    \A i, j \in DOMAIN j_creates :
        (i < j /\ j_creates[i].answer # "created") => j_creates[j].title # j_creates[i].title

\* the keywords of a category
KeywordsOf(c) ==
    LET e == CHOOSE e \in Range(CATEGORY_KEYWORDS) : e.cat_id = c IN Range(e.keywords)

\* the order in which C6 has the categories tried
Priority == <<ADMIT_CARD, RESULTS, ANSWER_KEY, SYLLABUS, ADMISSION>>

\* C6: detect_category returns the first category, in the order AdmitCard,
\* Results, AnswerKey, Syllabus, Admission, one of whose keywords occurs in the
\* lower-cased title, and LatestJobs when there is none; a title with both
\* "admit card" and "result" is an AdmitCard.
C6_ClassificationPriority ==
    fn_op = "detect_category" =>
        LET t == Lower(fn_in.title)
            Hit(k) == ContainsAny(t, KeywordsOf(Priority[k]))
        IN  /\ \A k \in DOMAIN Priority :
                (Hit(k) /\ \A h \in 1..(k - 1) : ~Hit(h)) => fn_out = Priority[k]
            /\ (\A k \in DOMAIN Priority : ~Hit(k)) => fn_out = LATEST_JOBS
            /\ (Contains(t, "admit card") /\ Contains(t, "result")) => fn_out = ADMIT_CARD

\* detect_category was applied to a title with "admit card" and "result" in it,
\* the result coming first
C6_Witness ==
    /\ fn_op = "detect_category"
    /\ fn_in.title = "Result of the Admit Card Verification"
    /\ fn_out = ADMIT_CARD

(***************************************************************************)
(* The two scripts side by side: a behaviour is one run of main() or one    *)
(* run of scripts/scripts/scraper.py                                       *)
(***************************************************************************)
BothInit == Init \/ JInit

BothNext == main \/ JNext

BothSpec == BothInit /\ [][BothNext]_vars

\* one of the three required variables is not set
MissingConfig ==
    \/ env.WP_SITE_URL = ""
    \/ env.WP_USERNAME = ""
    \/ env.WP_APP_PASSWORD = ""

\* no scraper was called, no item taken up, no request sent to the store
NoWorkDone ==
    /\ src <= 1 /\ all_items = <<>> /\ unique = <<>>
    /\ stages = <<>> /\ outcomes = <<>> /\ creates = <<>> /\ DOMAIN report = {}
    /\ j_cat <= 1 /\ j_links = <<>> /\ j_creates = <<>>
    /\ \A k \in DOMAIN j_stats : j_stats[k] = 0
    /\ pc \in {"idle", "start", "exit(1)"}
    /\ j_pc \in {"idle", "start", "exit(1)"}

\* C11: when the site URL, the user name or the application password is not
\* set, the first step of either script is its exit with status 1, and no
\* listing page is fetched, no candidate processed and no request sent to the
\* store, before it or after it.
C11_ConfigErrorsFatal ==
    /\ [](MissingConfig => NoWorkDone)
    /\ [][(MissingConfig /\ pc = "start") => pc' = "exit(1)"]_vars
    /\ [][(MissingConfig /\ j_pc = "start") => j_pc' = "exit(1)"]_vars
    /\ [][(pc = "exit(1)" \/ j_pc = "exit(1)") => FALSE]_vars

\* main() has exited because the application password is not set
C11_Witness ==
    /\ pc = "exit(1)"
    /\ env.WP_APP_PASSWORD = ""
    /\ env.WP_SITE_URL # "" /\ env.WP_USERNAME # ""
    /\ NoWorkDone

\* C12: for every candidate main publishes the stages come in the order dedup
\* check, detail fetch, extraction, classification, composition, publish: the
\* category handed to wp_post is computed after the detail page was fetched and
\* extracted.
C12_StageOrder ==
    (pc = "sleep" /\ html_ok) =>
        \E d, f, e, c, m, p \in DOMAIN stages :
            /\ d < f /\ f < e /\ e < c /\ c < m /\ m < p
            /\ stages[d] = "exists(title)"
            /\ stages[f] = "fetch"
            /\ stages[e] = "extract"
            /\ stages[c] = "classify"
            /\ stages[m] = "compose"
            /\ stages[p] = "create"

\* C13: whatever the headings of the detail page, extract_faq returns at most
\* 5 entries.
C13_FaqBounded ==
    fn_op = "extract_faq" => Len(fn_out) <= 5

\* the words that put an anchor under a label
LabelWords(label) ==
    CASE label = "apply"        -> {"apply", "registration"}
      [] label = "notification" -> {"notification", "pdf", "download"}
      [] label = "official"     -> {"official", "website"}

\* an anchor extract_links may take for the label: an absolute link outside
\* the aggregator domains whose text has a word of the label
Qualifies(a, label) ==
    /\ StartsWith(a.href, "http")
    /\ ~IsAggregator(a.href)
    /\ ContainsAny(Lower(clean(a.text)), LabelWords(label))

\* C14: the targets extract_links returns for apply, notification and official
\* are pairwise distinct where filled, each is the target of an anchor that
\* qualifies for its label, and apply is the first such anchor of the page.
C14_LinksDistinct ==
    fn_op = "extract_links" =>
        LET anchors == fn_in.page.anchors
            labels == {"apply", "notification", "official"}
        IN  /\ \A k, l \in labels :
                  (k # l /\ fn_out[k] # None /\ fn_out[l] # None) => fn_out[k] # fn_out[l]
            /\ \A l \in labels :
                  fn_out[l] # None =>
                      \E i \in DOMAIN anchors :
                          Qualifies(anchors[i], l) /\ anchors[i].href = fn_out[l]
            /\ \A i \in DOMAIN anchors :
                  (Qualifies(anchors[i], "apply")
                     /\ \A h \in 1..(i - 1) : ~Qualifies(anchors[h], "apply"))
                  => fn_out["apply"] = anchors[i].href

\* the candidate is what the harvester makes of the anchor
FromAnchor(c, a, name) ==
    /\ c.link \in {a.href, urljoin(BaseOf(name), a.href)}
    /\ "title" \in DOMAIN c => c.title = clean(a.text)

RECURSIVE InDocumentOrder(_, _, _, _, _)
\* the candidates from i on come from anchors from j on, in their order
InDocumentOrder(cands, i, anchors, j, name) ==
    IF i > Len(cands) THEN TRUE
    ELSE IF j > Len(anchors) THEN FALSE
    ELSE IF FromAnchor(cands[i], anchors[j], name)
         THEN InDocumentOrder(cands, i + 1, anchors, j + 1, name)
         ELSE InDocumentOrder(cands, i, anchors, j + 1, name)

\* C15: the candidates a harvester returns are in the order of the page, no
\* two of them have the same URL, and a page without anchors, or one that was
\* not fetched, gives no candidate.
C15_HarvestersDedupe ==
    fn_op = "harvest" =>
        /\ \A i, j \in DOMAIN fn_out : i # j => fn_out[i].link # fn_out[j].link
        /\ InDocumentOrder(fn_out, 1, fn_in.anchors, 1, fn_in.harvester)
        /\ fn_in.anchors = <<>> => fn_out = <<>>

\* the time.sleep of the loop came after the last POST
PacedSinceLastPost ==
    (timeline # <<>> /\ timeline[1] = "POST") =>
        \E i \in DOMAIN timeline : timeline[i] = "sleep(SLEEP)"

\* C16: when wp_post (main) or wp_create_post (JobScraper) is about to be
\* called after an earlier call of the run, the sleep of SLEEP_BETWEEN_POSTS
\* came in between, whether the earlier call stored its item or not; and in
\* main every GET of a page comes right after the delay of fetch.
C16_Pacing ==
    /\ pc = "post" => PacedSinceLastPost
    /\ j_pc = "create" => PacedSinceLastPost
    /\ pc # "idle" =>
          \A i \in DOMAIN timeline :
              timeline[i] = "GET page" => (i > 1 /\ timeline[i - 1] = "delay")

\* the search request of the dedup gate for the candidate in progress failed
SearchFailed == timeline # <<>> /\ timeline[Len(timeline)] = "GET search failed"

\* C17: when the search request of the dedup gate raises or is answered with
\* a status other than 200, wp_exists and wp_post_exists return False, and the
\* next request the script sends to the store is the Create for that
\* candidate, whether or not the store holds an item with its title.
C17_GateFailsOpen ==
    /\ [][(pc = "exists" /\ SearchFailed') => pc' = "classify"]_vars
    /\ [][(pc = "classify" /\ SearchFailed) => (pc' = "build" /\ SearchFailed')]_vars
    /\ [][(pc = "post" /\ timeline[Len(timeline) - 2] = "GET search failed") =>
            (Len(creates') = Len(creates) + 1 /\ creates'[Len(creates')].title = Item.title)]_vars
    /\ [][(j_pc = "exists" /\ SearchFailed') => j_pc' = "create"]_vars
    /\ [][(j_pc = "create" /\ SearchFailed) =>
            (Len(j_creates') = Len(j_creates) + 1
               /\ j_creates'[Len(j_creates')].title = j_article.title)]_vars

\* the search of wp_exists failed for a title the store holds, the gate
\* answered False, and main has classified and built the candidate and stands
\* at the call of wp_post for it
C17_Witness ==
    /\ pc = "post"
    /\ timeline[Len(timeline) - 2] = "GET search failed"
    /\ \E i \in DOMAIN store : store[i] = Item.title
    /\ stages[1] = "exists(title)"

\* C18: after wp_create_post(title, ...) was answered with 201 by a store that
\* keeps the title it was sent, a wp_post_exists(title) whose search request is
\* answered with status 200 and with every matching item returns True, for
\* titles of every length.
C18_CreateExistsRoundTrip ==
    (/\ fn_op = "wp_create_post; wp_post_exists"
     /\ fn_out.answer = "ok"
     /\ fn_out.matches <= PER_PAGE)
    => fn_out.exists
====
